---- MODULE Spec2Model ----
(***************************************************************************)
(* Model of the work-distribution and batch-orchestration logic of         *)
(* src/main.py: distribute_users, send_asks_for_account, send_ask_smart    *)
(* (as far as the ledger is concerned), login_tumblr_account (as far as    *)
(* its result and its browser are concerned) and the batch loop of main.   *)
(*                                                                         *)
(* Accounts are the integers 1..Len(accounts) (the position of the account *)
(* in the accounts list, 1-based); recipients are integers (the cleaned    *)
(* user names).  Python indices (account_index, batch_num, the loop        *)
(* counters) keep their 0-based values.                                    *)
(*                                                                         *)
(* The tasks of asyncio.gather run interleaved: every completed await of a *)
(* task that changes state is one action.  A delivery attempt changes      *)
(* state only in the synchronous segment that appends to SENT_LOG_FILE, so *)
(* one attempt is one action.  The ledger file is modelled as a bag of     *)
(* lines (the order of the lines is not part of the model).                *)
(***************************************************************************)
EXTENDS Integers, Sequences, FiniteSets, Bags, TLC

\* ---------------------------------------------------------------- bounds
MaxAccounts == 3
MaxUsers == 10
MaxBatch == 2
MaxShort == 2
MaxNames == 2

\* ------------------------------------------------------ program constants
ASK_LIMIT_PER_ACCOUNT == 9

VARIABLES
    accounts,           \* the accounts list (main, line 374)
    users,              \* the cleaned users list (main, line 378)
    batch_size,         \* main, line 389
    pc,                 \* position of main
    total_batches,      \* main, line 392
    users_per_account,  \* main, line 393
    remaining_users,    \* main, line 394
    account_index,      \* main, line 395
    batch_num,          \* loop variable of line 397
    batch_accounts,     \* main, line 401
    batch_user_chunks,  \* main, lines 406-414 and 431
    login_results,      \* per account: state/result of its login task
    send_tasks,         \* per account: the send_asks_for_account task run on its session
    browser,            \* per account: state of the browser its login launched
    ledger,             \* bag of the lines appended to SENT_LOG_FILE
    attempts,           \* per account: the recipients send_ask_smart was called for on its session
    returned_true,      \* bag of the recipients for which send_ask_smart returned True
    login_batches,      \* per account: the batch_num of every login task started for it
    report              \* the final log line: -1 none yet, else len(remaining_users)

vars == <<accounts, users, batch_size, pc, total_batches, users_per_account,
          remaining_users, account_index, batch_num, batch_accounts,
          batch_user_chunks, login_results, send_tasks, browser, ledger,
          attempts, returned_true, login_batches, report>>

\* ------------------------------------------------------------- helpers
Min(a, b) == IF a < b THEN a ELSE b

\* Python s[start:end] for 0 <= start, 0 <= end (0-based, end exclusive, clipped)
Slice(s, start, end) == SubSeq(s, start + 1, Min(end, Len(s)))

Range(s) == {s[i] : i \in 1..Len(s)}

\* [u for u in s if u not in chunk]
Without_nothing(s, chunk) == s

Without(s, chunk) == SelectSeq(s, LAMBDA u : u \notin Range(chunk))

\* chunk[:ASK_LIMIT_PER_ACCOUNT]
quota_slice_all(chunk) == chunk

quota_slice(chunk) == Slice(chunk, 0, ASK_LIMIT_PER_ACCOUNT)

Accounts == 1..MaxAccounts

NoTask == [users |-> <<>>, idx |-> 0, st |-> "none"]

\* ------------------------------------------------------ distribute_users
RECURSIVE distribute_loop(_, _, _, _, _)
distribute_loop(us, n, i, start, chunks) ==
    IF i >= n THEN chunks
    ELSE LET avg == Len(us) \div n
             remainder == Len(us) % n
             end == start + avg + (IF i < remainder THEN 1 ELSE 0)
         IN distribute_loop(us, n, i + 1, end, Append(chunks, Slice(us, start, end)))

distribute_users_even(us, n) ==
    LET avg == Len(us) \div n
    IN [i \in 1..n |-> IF i < n THEN Slice(us, (i - 1) * avg, i * avg)
                                ELSE Slice(us, (i - 1) * avg, Len(us))]

distribute_users_overlap(us, n) ==
    LET avg == Len(us) \div n
        remainder == Len(us) % n
    IN [i \in 1..n |-> Slice(us, (i - 1) * avg,
                             (i - 1) * avg + avg + (IF i - 1 < remainder THEN 1 ELSE 0))]

\* lines 80-81: ValueError("Number of accounts must be positive.")
distribute_raises_negative(n) == n < 0

distribute_raises(n) == n <= 0

\* the value returned when no ValueError is raised
distribute_users(us, n) == distribute_loop(us, n, 0, 0, <<>>)

\* ------------------------------------------------------------------ Init
UserLists ==
    {[i \in 1..n |-> i] : n \in 0..MaxUsers}
    \cup UNION {[1..n -> 1..MaxNames] : n \in 0..MaxShort}

Init ==
    /\ accounts \in {[i \in 1..n |-> i] : n \in 0..MaxAccounts}
    /\ users \in UserLists
    /\ batch_size \in 1..MaxBatch
    /\ pc = "start"
    /\ total_batches = 0
    /\ users_per_account = <<>>
    /\ remaining_users = <<>>
    /\ account_index = 0
    /\ batch_num = 0
    /\ batch_accounts = <<>>
    /\ batch_user_chunks = <<>>
    /\ login_results = [a \in Accounts |-> "not_started"]
    /\ send_tasks = [a \in Accounts |-> NoTask]
    /\ browser = [a \in Accounts |-> "none"]
    /\ ledger = EmptyBag
    /\ attempts = [a \in Accounts |-> <<>>]
    /\ returned_true = EmptyBag
    /\ login_batches = [a \in Accounts |-> <<>>]
    /\ report = -1

\* ---------------------------------------------------- main, lines 392-395
MainSetup ==
    /\ pc = "start"
    /\ ~distribute_raises(Len(accounts))
    /\ total_batches' = (Len(accounts) + batch_size - 1) \div batch_size
    /\ users_per_account' = distribute_users(users, Len(accounts))
    /\ remaining_users' = users
    /\ account_index' = 0
    /\ batch_num' = 0
    /\ pc' = "loop"
    /\ UNCHANGED <<accounts, users, batch_size, batch_accounts, batch_user_chunks,
                   login_results, send_tasks, browser, ledger, report, attempts,
                   returned_true, login_batches>>

\* distribute_users raises ValueError (line 81), caught at lines 446-447
MainSetupRaises ==
    /\ pc = "start"
    /\ distribute_raises(Len(accounts))
    /\ total_batches' = (Len(accounts) + batch_size - 1) \div batch_size
    /\ pc' = "failed"
    /\ UNCHANGED <<accounts, users, batch_size, users_per_account, remaining_users,
                   account_index, batch_num, batch_accounts, batch_user_chunks,
                   login_results, send_tasks, browser, ledger, report, attempts,
                   returned_true, login_batches>>

\* ---------------------------------------------------- main, lines 397-421
\* accounts[account_index:account_index + batch_size]
NextBatchAccounts_first == Slice(accounts, 0, batch_size)

NextBatchAccounts == Slice(accounts, account_index, account_index + batch_size)

\* the loop of lines 406-414, run with account_index already advanced (ai)
RECURSIVE assign_chunks(_, _, _, _, _)
assign_chunks(accs, ai, i, chunks, remaining) ==
    IF i >= Len(accs) \/ ~(i < Len(users_per_account))
    THEN [chunks |-> chunks, remaining |-> remaining]
    ELSE LET chunk == quota_slice(users_per_account[(ai - batch_size + i) + 1])
         IN IF chunk # <<>>
            THEN assign_chunks(accs, ai, i + 1, Append(chunks, chunk),
                               Without(remaining, chunk))
            ELSE assign_chunks(accs, ai, i + 1, chunks, remaining)

NextAssignment ==
    assign_chunks(NextBatchAccounts, account_index + batch_size, 0, <<>>, remaining_users)

\* the loop ends: range exhausted, or one of the breaks of lines 399, 403, 418
LoopEnds_ignores_pending ==
    \/ batch_num >= total_batches
    \/ NextBatchAccounts = <<>>
    \/ NextAssignment.chunks = <<>>

LoopEnds ==
    \/ batch_num >= total_batches
    \/ remaining_users = <<>>
    \/ NextBatchAccounts = <<>>
    \/ NextAssignment.chunks = <<>>

BatchBreak ==
    /\ pc = "loop"
    /\ LoopEnds
    /\ account_index' =
          IF batch_num < total_batches /\ remaining_users # <<>> /\ NextBatchAccounts # <<>>
          THEN account_index + batch_size ELSE account_index
    /\ batch_accounts' =
          IF batch_num < total_batches /\ remaining_users # <<>>
          THEN NextBatchAccounts ELSE batch_accounts
    /\ batch_user_chunks' =
          IF batch_num < total_batches /\ remaining_users # <<>> /\ NextBatchAccounts # <<>>
          THEN NextAssignment.chunks ELSE batch_user_chunks
    /\ pc' = "report"
    /\ UNCHANGED <<accounts, users, batch_size, total_batches, users_per_account,
                   remaining_users, batch_num, login_results,
                   send_tasks, browser, ledger, report, attempts,
                   returned_true, login_batches>>

\* line 420: one login task for every account of batch_accounts
LoginTargets_all_accounts == Range(accounts)

LoginTargets == Range(NextBatchAccounts)

\* lines 401-421: the batch is formed and the login tasks are started
BatchStart ==
    /\ pc = "loop"
    /\ ~LoopEnds
    /\ batch_accounts' = NextBatchAccounts
    /\ account_index' = account_index + batch_size
    /\ batch_user_chunks' = NextAssignment.chunks
    /\ remaining_users' = NextAssignment.remaining
    /\ login_results' = [a \in Accounts |->
                            IF a \in LoginTargets THEN "pending"
                            ELSE login_results[a]]
    /\ login_batches' = [a \in Accounts |->
                            IF a \in LoginTargets
                            THEN Append(login_batches[a], batch_num)
                            ELSE login_batches[a]]
    /\ pc' = "login"
    /\ UNCHANGED <<accounts, users, batch_size, total_batches, users_per_account,
                   batch_num, send_tasks, browser, ledger, report, attempts,
                   returned_true>>

\* ------------------------------------------- login_tumblr_account, 98-135
\* ok: lines 100-129, the browser stays open and (page, browser, context) is
\* returned; otherwise lines 131-135, the browser (if launched) is closed
login_tumblr_account(a, ok) ==
    /\ pc = "login"
    /\ login_results[a] = "pending"
    /\ login_results' = [login_results EXCEPT ![a] = IF ok THEN "session" ELSE "None"]
    /\ browser' = [browser EXCEPT ![a] = IF ok THEN "open" ELSE "closed"]
    /\ UNCHANGED <<accounts, users, batch_size, pc, total_batches, users_per_account,
                   remaining_users, account_index, batch_num, batch_accounts,
                   batch_user_chunks, send_tasks, ledger, report, attempts,
                   returned_true, login_batches>>

\* ---------------------------------------------------- main, lines 421-437
LoginsDone == \A a \in Range(batch_accounts) : login_results[a] # "pending"

\* [res for res in login_results if res is not None]
valid_results == SelectSeq(batch_accounts, LAMBDA a : login_results[a] = "session")

\* lines 424-426
NoValidLogins ==
    /\ pc = "login"
    /\ LoginsDone
    /\ valid_results = <<>>
    /\ batch_num' = batch_num + 1
    /\ pc' = "loop"
    /\ UNCHANGED <<accounts, users, batch_size, total_batches, users_per_account,
                   remaining_users, account_index, batch_accounts, batch_user_chunks,
                   login_results, send_tasks, browser, ledger, report, attempts,
                   returned_true, login_batches>>

\* lines 430-431
TruncatedChunks_last ==
    IF Len(valid_results) < Len(batch_user_chunks)
    THEN Slice(batch_user_chunks, Len(batch_user_chunks) - Len(valid_results),
               Len(batch_user_chunks))
    ELSE batch_user_chunks

TruncatedChunks ==
    IF Len(valid_results) < Len(batch_user_chunks)
    THEN Slice(batch_user_chunks, 0, Len(valid_results))
    ELSE batch_user_chunks

\* zip(valid_results, batch_user_chunks): the session of valid_results[j] gets chunk j
ZipLen == Min(Len(valid_results), Len(TruncatedChunks))

\* lines 430-437: the send tasks are created and started
StartSends ==
    /\ pc = "login"
    /\ LoginsDone
    /\ valid_results # <<>>
    /\ batch_user_chunks' = TruncatedChunks
    /\ send_tasks' = [a \in Accounts |->
                        IF \E j \in 1..ZipLen : valid_results[j] = a
                        THEN LET j == CHOOSE k \in 1..ZipLen : valid_results[k] = a
                             IN [users |-> TruncatedChunks[j], idx |-> 0, st |-> "running"]
                        ELSE send_tasks[a]]
    /\ pc' = "send"
    /\ UNCHANGED <<accounts, users, batch_size, total_batches, users_per_account,
                   remaining_users, account_index, batch_num, batch_accounts,
                   login_results, browser, ledger, report, attempts,
                   returned_true, login_batches>>

\* ------------------------------ send_asks_for_account / send_ask_smart
Outcomes == {"success", "ambiguous", "rejected", "failure"}

\* what send_ask_smart does to SENT_LOG_FILE: lines 348-356 append, the
\* returns of lines 331, 341 and 360 do not
LedgerAfter_twice(l, user, outcome) ==
    IF outcome = "success" THEN l (+) SetToBag({user}) (+) SetToBag({user})
    ELSE IF outcome = "ambiguous" THEN l (+) SetToBag({user}) ELSE l

LedgerAfter_strict(l, user, outcome) ==
    IF outcome = "success" THEN l (+) SetToBag({user}) ELSE l

LedgerAfter_overwrite(l, user, outcome) ==
    IF outcome \in {"success", "ambiguous"} THEN SetToBag({user}) ELSE l

LedgerAfter(l, user, outcome) ==
    IF outcome \in {"success", "ambiguous"} THEN l (+) SetToBag({user}) ELSE l

\* the value send_ask_smart returns: True at lines 351 and 356, False at
\* lines 331, 341 and 360
ReturnsTrue(outcome) == outcome \in {"success", "ambiguous"}

\* the for loop of line 365 goes on to the next user whatever send_ask_smart
\* returned (n is the length of users[:ASK_LIMIT_PER_ACCOUNT])
NextIdx_stops_on_failure(idx, outcome, n) ==
    IF outcome \in {"rejected", "failure"} THEN n ELSE idx + 1

NextIdx(idx, outcome, n) == idx + 1

\* one iteration of the loop of line 365 on the session of account a
send_ask_smart(a, outcome) ==
    /\ pc = "send"
    /\ send_tasks[a].st = "running"
    /\ send_tasks[a].idx < Len(quota_slice(send_tasks[a].users))
    /\ LET user == quota_slice(send_tasks[a].users)[send_tasks[a].idx + 1]
       IN /\ ledger' = LedgerAfter(ledger, user, outcome)
          /\ attempts' = [attempts EXCEPT ![a] = Append(@, user)]
          /\ returned_true' = IF ReturnsTrue(outcome)
                              THEN returned_true (+) SetToBag({user})
                              ELSE returned_true
    /\ send_tasks' = [send_tasks EXCEPT ![a].idx =
                         NextIdx(@, outcome, Len(quota_slice(send_tasks[a].users)))]
    /\ UNCHANGED <<accounts, users, batch_size, pc, total_batches, users_per_account,
                   remaining_users, account_index, batch_num, batch_accounts,
                   batch_user_chunks, login_results, browser, report,
                   login_batches>>

\* line 367: the loop is over, the browser of the session is closed
browser_close_leak(a) ==
    /\ pc = "send"
    /\ send_tasks[a].st = "running"
    /\ send_tasks[a].idx >= Len(quota_slice(send_tasks[a].users))
    /\ browser' = browser
    /\ send_tasks' = [send_tasks EXCEPT ![a].st = "done"]
    /\ UNCHANGED <<accounts, users, batch_size, pc, total_batches, users_per_account,
                   remaining_users, account_index, batch_num, batch_accounts,
                   batch_user_chunks, login_results, ledger, report, attempts,
                   returned_true, login_batches>>

browser_close(a) ==
    /\ pc = "send"
    /\ send_tasks[a].st = "running"
    /\ send_tasks[a].idx >= Len(quota_slice(send_tasks[a].users))
    /\ browser' = [browser EXCEPT ![a] = "closed"]
    /\ send_tasks' = [send_tasks EXCEPT ![a].st = "done"]
    /\ UNCHANGED <<accounts, users, batch_size, pc, total_batches, users_per_account,
                   remaining_users, account_index, batch_num, batch_accounts,
                   batch_user_chunks, login_results, ledger, report, attempts,
                   returned_true, login_batches>>

\* await asyncio.gather(*send_tasks) returns when every send task has finished
AnySendDone == \E a \in Accounts : send_tasks[a].st = "done"

AllSendsDone == \A a \in Accounts : send_tasks[a].st # "running"

\* lines 437-439
SendsGathered ==
    /\ pc = "send"
    /\ AllSendsDone
    /\ batch_num' = batch_num + 1
    /\ pc' = "loop"
    /\ UNCHANGED <<accounts, users, batch_size, total_batches, users_per_account,
                   remaining_users, account_index, batch_accounts, batch_user_chunks,
                   login_results, send_tasks, browser, ledger, report, attempts,
                   returned_true, login_batches>>

\* ---------------------------------------------------- main, lines 441-444
Report ==
    /\ pc = "report"
    /\ report' = Len(remaining_users)
    /\ pc' = "done"
    /\ UNCHANGED <<accounts, users, batch_size, total_batches, users_per_account,
                   remaining_users, account_index, batch_num, batch_accounts,
                   batch_user_chunks, login_results, send_tasks, browser, ledger, attempts,
                   returned_true, login_batches>>

Next ==
    \/ MainSetup
    \/ MainSetupRaises
    \/ BatchBreak
    \/ BatchStart
    \/ \E a \in Accounts, ok \in BOOLEAN : login_tumblr_account(a, ok)
    \/ NoValidLogins
    \/ StartSends
    \/ \E a \in Accounts, outcome \in Outcomes : send_ask_smart(a, outcome)
    \/ \E a \in Accounts : browser_close(a)
    \/ SendsGathered
    \/ Report

Spec == Init /\ [][Next]_vars

\* every step of main and of a started task is eventually taken: the event
\* loop runs every runnable task, and every login and send call returns (each
\* wait in login_tumblr_account and send_ask_smart carries a timeout)
FairSpec == Spec /\ WF_vars(Next)

TypeOK ==
    /\ pc \in {"start", "loop", "login", "send", "report", "done", "failed"}
    /\ batch_size \in 1..MaxBatch
    /\ \A a \in Accounts : login_results[a] \in {"not_started", "pending", "session", "None"}
    /\ \A a \in Accounts : browser[a] \in {"none", "open", "closed"}
    /\ \A a \in Accounts : send_tasks[a].st \in {"none", "running", "done"}
    /\ report \in -1..Len(users)
\* ================================================================ claims
RECURSIVE SumLen(_)
SumLen(chunks) == IF chunks = <<>> THEN 0 ELSE Len(Head(chunks)) + SumLen(Tail(chunks))

RECURSIVE Concat(_)
Concat(chunks) == IF chunks = <<>> THEN <<>> ELSE Head(chunks) \o Concat(Tail(chunks))

Distinct(s) == \A i, j \in 1..Len(s) : i # j => s[i] # s[j]

\* main has called distribute_users(users, len(accounts)) and holds its result
Distributed == pc \notin {"start", "failed"}

\* C1: for every recipient list and every account count A > 0 the chunks of
\* distribute_users have lengths that sum to the number of recipients, lengths
\* that differ pairwise by at most 1, and their concatenation in chunk order
\* is the recipient list.
C1_PartitionCovers ==
    Distributed =>
        /\ SumLen(users_per_account) = Len(users)
        /\ \A i, j \in 1..Len(users_per_account) :
              Len(users_per_account[i]) - Len(users_per_account[j]) <= 1
        /\ Concat(users_per_account) = users

C1_Witness ==
    /\ Distributed
    /\ Len(accounts) >= 2
    /\ Len(users) > Len(accounts)
    /\ Len(users) % Len(accounts) # 0
    /\ Len(users_per_account[1]) = Len(users_per_account[Len(accounts)]) + 1

\* C10: distribute_users returns exactly A chunks; with base = R // A and
\* extra = R % A the chunks 0..extra-1 have length base + 1 and the chunks
\* extra..A-1 have length base.
C10_ChunkLengths ==
    Distributed =>
        LET A == Len(accounts)
            base == Len(users) \div A
            extra == Len(users) % A
        IN /\ Len(users_per_account) = A
           /\ \A i \in 0..(A - 1) :
                 Len(users_per_account[i + 1]) = IF i < extra THEN base + 1 ELSE base

C10_Witness ==
    /\ Distributed
    /\ Len(accounts) = 3
    /\ Len(users) = 2
    /\ Len(users_per_account[2]) = 1
    /\ users_per_account[3] = <<>>

\* C2: in a run no account's session is used for more than
\* ASK_LIMIT_PER_ACCOUNT (9) delivery attempts.
C2_QuotaPerAccount ==
    \A a \in Accounts : Len(attempts[a]) <= 9

C2_Witness ==
    \E a \in Accounts :
        /\ Len(attempts[a]) = 9
        /\ Len(users_per_account[a]) > 9
        /\ send_tasks[a].st = "done"
\* the batch account a belongs to: batch b is accounts[b*batch_size : (b+1)*batch_size]
BatchOf(a) == (a - 1) \div batch_size

InLedger(u) == BagIn(u, ledger)

\* C3: the pending set only shrinks, and a recipient has left it if and only
\* if a Sent outcome has been recorded for it (a line of the ledger).
C3_PendingIffSent ==
    [][ /\ pc # "start" => Range(remaining_users') \subseteq Range(remaining_users)
        /\ pc' \notin {"start", "failed"} =>
              \A u \in Range(users') :
                  (u \notin Range(remaining_users')) <=> BagIn(u, ledger') ]_vars

\* C4: no login or delivery attempt of an account of a later batch starts
\* before every account task of every earlier batch has finished: its login
\* has returned, its delivery loop is over and its session is closed.
TaskStarted(b) ==
    \/ login_results[b] # "not_started"
    \/ send_tasks[b].st # "none"
    \/ attempts[b] # <<>>

TaskFinished(a) ==
    /\ login_results[a] \in {"session", "None"}
    /\ send_tasks[a].st # "running"
    /\ browser[a] # "open"

C4_BatchesSequential ==
    \A a, b \in 1..Len(accounts) :
        (BatchOf(a) < BatchOf(b) /\ TaskStarted(b)) => TaskFinished(a)

C4_Witness ==
    \E a, b \in 1..Len(accounts) :
        /\ BatchOf(a) < BatchOf(b)
        /\ login_results[b] = "pending"
        /\ send_tasks[a].st = "done"
        /\ attempts[a] # <<>>

\* C5: if the login fails for every account of a batch, the run does not
\* raise and goes on, and every recipient of that batch's chunks is still in
\* the pending set.
BatchAccountsOf(a) == {b \in 1..Len(accounts) : BatchOf(b) = BatchOf(a)}

C5_FailedBatchStaysPending ==
    \A a \in 1..Len(accounts) :
        (\A b \in BatchAccountsOf(a) : login_results[b] = "None") =>
            /\ pc # "failed"
            /\ \A u \in Range(quota_slice(users_per_account[a])) :
                  u \in Range(remaining_users)

\* C6: at the end of every batch and at the end of the run no session that a
\* successful login produced is still open.
C6_SessionsReleased ==
    pc \in {"loop", "report", "done"} => \A a \in Accounts : browser[a] # "open"

\* C7: the final report gives as unserved the number of input recipients
\* without a recorded Sent outcome, and says that all were processed only if
\* every recipient has one.
Unsent == {i \in 1..Len(users) : ~InLedger(users[i])}

C7_ReportCountsUnsent ==
    pc = "done" =>
        /\ report = Cardinality(Unsent)
        /\ report = 0 => \A i \in 1..Len(users) : InLedger(users[i])

\* C8: with A > 0 accounts, distinct recipients and no chunk longer than the
\* quota, if every login and every send succeeded the run ends with every
\* recipient delivered exactly once, through the account of its own chunk,
\* with servedCount = R and unservedCount = 0.
AllLoginsSucceeded == \A a \in Accounts : login_results[a] # "None"

AllSendsSucceeded == \A a \in Accounts : \A u \in Range(attempts[a]) : InLedger(u)

ChunksWithinQuota ==
    \A i \in 1..Len(users_per_account) : Len(users_per_account[i]) <= ASK_LIMIT_PER_ACCOUNT

C8_AllSucceedAllServed ==
    (pc = "done" /\ Distinct(users) /\ ChunksWithinQuota
        /\ AllLoginsSucceeded /\ AllSendsSucceeded) =>
        /\ \A a \in 1..Len(accounts) : attempts[a] = users_per_account[a]
        /\ \A a \in Accounts \ (1..Len(accounts)) : attempts[a] = <<>>
        /\ \A i \in 1..Len(users) : CopiesIn(users[i], ledger) = 1
        /\ Len(users) - Len(remaining_users) = Len(users)
        /\ report = 0

C8_Witness ==
    /\ pc = "done"
    /\ Len(accounts) = 3
    /\ batch_size = 2
    /\ users = [i \in 1..10 |-> i]
    /\ AllLoginsSucceeded
    /\ AllSendsSucceeded
    /\ attempts[3] = <<8, 9, 10>>
    /\ report = 0

\* C9 (as stated): after any run, whatever the recipient list, the ledger
\* holds each recipient identifier at most once.
C9_LedgerNoDuplicates ==
    \A u \in BagToSet(ledger) : CopiesIn(u, ledger) <= 1

\* C9 (amended): for every recipient list without repeated identifiers, the
\* ledger written by a run holds each recipient identifier at most once.
C9_LedgerNoDuplicatesIfDistinct ==
    Distinct(users) => \A u \in BagToSet(ledger) : CopiesIn(u, ledger) <= 1

C9_Witness ==
    /\ pc = "done"
    /\ Distinct(users)
    /\ Len(accounts) >= 2
    /\ \E a, b \in 1..Len(accounts) :
          /\ a # b
          /\ \E u \in Range(attempts[a]) : InLedger(u)
          /\ \E u \in Range(attempts[b]) : InLedger(u)
\* C11: distribute_users with an account count <= 0 fails with an
\* invalid-argument error and produces no chunks; a run with zero accounts
\* ends at the top level with no login, no delivery attempt, and the pending
\* set and the ledger unchanged.
C11_ZeroAccountsFails ==
    (Len(accounts) <= 0 /\ pc # "start") =>
        /\ pc = "failed"
        /\ users_per_account = <<>>
        /\ \A a \in Accounts : login_results[a] = "not_started" /\ attempts[a] = <<>>
        /\ remaining_users = <<>>
        /\ ledger = EmptyBag
        /\ report = -1

C11_Witness ==
    /\ Len(accounts) = 0
    /\ pc = "failed"
    /\ Len(users) = MaxUsers

\* C12: at every point of a run the number of sessions that are open
\* (acquired and not yet released), counted over all batches so far, is at
\* most batch_size.
OpenSessions == {a \in Accounts : browser[a] = "open"}

C12_OpenSessionsBounded ==
    Cardinality(OpenSessions) <= batch_size

C12_Witness ==
    /\ batch_size = 2
    /\ Len(accounts) = 3
    /\ batch_num = 1
    /\ browser[1] = "closed"
    /\ browser[2] = "closed"
    /\ browser[3] = "open"
    /\ attempts[1] # <<>>
    /\ attempts[2] # <<>>

\* C13: under every interleaving of the account tasks no update of the ledger
\* or of the pending set is lost: the ledger holds exactly one entry per Sent
\* (or ambiguous) outcome the tasks produced, and the pending set is the
\* recipient list without every recipient removed from it so far.
RemovedSoFar ==
    UNION {Range(quota_slice(users_per_account[a])) :
              a \in {b \in 1..Len(accounts) : login_results[b] # "not_started"}}

C13_NoLostUpdates ==
    /\ ledger = returned_true
    /\ Distributed =>
          remaining_users = SelectSeq(users, LAMBDA u : u \notin RemovedSoFar)

C13_Witness ==
    /\ pc = "loop"
    /\ batch_num = 1
    /\ batch_size = 2
    /\ \A a \in 1..2 : Len(attempts[a]) >= 2 /\ send_tasks[a].st = "done"
    /\ BagCardinality(ledger) >= 4
    /\ \E a \in 1..2 : \E u \in Range(attempts[a]) : ~InLedger(u)
\* C14: within one account's delivery loop the first min(len(chunk), 9)
\* recipients of the chunk are attempted exactly once each, in chunk order; a
\* Rejected or Failure outcome neither stops the loop nor causes a retry, so
\* the attempts made so far are always a prefix of the chunk and are that
\* whole prefix when the loop is over.
C14_AttemptsFollowChunk ==
    \A a \in Accounts :
        LET chunk == send_tasks[a].users
            n == Min(Len(chunk), 9)
        IN /\ Len(attempts[a]) <= n
           /\ attempts[a] = SubSeq(chunk, 1, Len(attempts[a]))
           /\ send_tasks[a].st = "done" => attempts[a] = SubSeq(chunk, 1, n)

C14_Witness ==
    \E a \in Accounts :
        /\ Distinct(users)
        /\ send_tasks[a].st = "done"
        /\ Len(send_tasks[a].users) >= 3
        /\ attempts[a] = send_tasks[a].users
        /\ ~InLedger(attempts[a][1])
        /\ InLedger(attempts[a][2])
        /\ ~InLedger(attempts[a][3])

\* C15: in a batch with n non-empty chunks where only k < n logins succeed
\* (k >= 1), the succeeded sessions, in account order, are paired one-to-one
\* with the first k chunks of the batch; those k chunks are delivered and the
\* other n - k chunks get no delivery attempt in this batch or a later one.
BatchSeq(b) == SelectSeq(accounts, LAMBDA a : BatchOf(a) = b)

NonEmptyChunks(b) ==
    LET chunks == [j \in 1..Len(BatchSeq(b)) |-> quota_slice(users_per_account[BatchSeq(b)[j]])]
    IN SelectSeq(chunks, LAMBDA c : c # <<>>)

Succeeded(b) == SelectSeq(BatchSeq(b), LAMBDA a : login_results[a] = "session")

\* main has created the send tasks of batch b
SendsStarted(b) ==
    /\ BatchSeq(b) # <<>>
    /\ \A a \in Range(BatchSeq(b)) : login_results[a] \in {"session", "None"}
    /\ batch_num > b \/ pc = "send"

C15_FirstChunksToSucceeded ==
    Distributed =>
    \A b \in 0..(Len(accounts) - 1) :
        LET n == Len(NonEmptyChunks(b))
            k == Len(Succeeded(b))
        IN (SendsStarted(b) /\ 1 <= k /\ k < n) =>
            /\ \A j \in 1..k :
                  /\ send_tasks[Succeeded(b)[j]].st # "none"
                  /\ send_tasks[Succeeded(b)[j]].users = NonEmptyChunks(b)[j]
                  /\ batch_num > b => attempts[Succeeded(b)[j]] = NonEmptyChunks(b)[j]
            /\ \A a \in Range(BatchSeq(b)) \ Range(Succeeded(b)) :
                  send_tasks[a].st = "none" /\ attempts[a] = <<>>
            /\ Distinct(users) =>
                  \A j \in (k + 1)..n : \A u \in Range(NonEmptyChunks(b)[j]) :
                      \A a \in Accounts : u \notin Range(attempts[a])

C15_Witness ==
    /\ pc = "done"
    /\ Distinct(users)
    /\ Len(accounts) = 3
    /\ batch_size = 2
    /\ Len(users) = 6
    /\ login_results = <<"None", "session", "session">>
    /\ attempts[2] = <<1, 2>>
    /\ attempts[3] = <<5, 6>>

\* C16: an account whose quota-truncated chunk is empty is dropped from its
\* batch before session acquisition: no login is attempted for it and it
\* performs no delivery attempt.
C16_EmptyChunkNoLogin ==
    Distributed =>
        \A a \in 1..Len(accounts) :
            quota_slice(users_per_account[a]) = <<>> =>
                /\ login_results[a] = "not_started"
                /\ attempts[a] = <<>>
\* C17: a delivery attempt appends its recipient to the ledger exactly when
\* its outcome is an observed success or an ambiguous one; an explicit
\* rejection or a failure (exception) never appends.
AttemptedNext(a) == quota_slice(send_tasks[a].users)[send_tasks[a].idx + 1]

C17_AppendIffSent ==
    [][ \A a \in Accounts, outcome \in Outcomes :
            send_ask_smart(a, outcome) =>
                IF outcome \in {"success", "ambiguous"}
                THEN /\ CopiesIn(AttemptedNext(a), ledger') =
                            CopiesIn(AttemptedNext(a), ledger) + 1
                     /\ BagCardinality(ledger') = BagCardinality(ledger) + 1
                ELSE ledger' = ledger ]_vars

C17_Witness ==
    \E a \in Accounts :
        /\ Distinct(users)
        /\ Len(attempts[a]) >= 2
        /\ InLedger(attempts[a][1])
        /\ ~InLedger(attempts[a][2])

\* C18: a delivery attempt for a recipient is only made through the session
\* of the account whose chunk the partitioner put the recipient in.
C18_OwnChunkOnly ==
    \A a \in Accounts : \A u \in Range(attempts[a]) :
        a <= Len(users_per_account) /\ u \in Range(users_per_account[a])

\* C19: every account belongs to exactly one batch, batch b being
\* accounts[b*batch_size : (b+1)*batch_size], and gets at most one login
\* attempt in the run: a failed login is not retried.
C19_OneLoginPerAccount ==
    \A a \in Accounts :
        /\ Len(login_batches[a]) <= 1
        /\ login_batches[a] # <<>> =>
              /\ a \in 1..Len(accounts)
              /\ login_batches[a][1] = BatchOf(a)
              /\ login_batches[a][1] * batch_size < a
              /\ a <= (login_batches[a][1] + 1) * batch_size
        /\ login_results[a] = "not_started" <=> login_batches[a] = <<>>

C19_Witness ==
    /\ pc = "done"
    /\ Len(accounts) = 3
    /\ batch_size = 2
    /\ login_batches = <<(<<0>>), (<<0>>), (<<1>>)>>
    /\ login_results[1] = "None"
    /\ login_results[3] = "session"
\* C20: provided every login and every send call returns, the campaign
\* terminates for every A > 0: it runs at most ceil(A / batch_size) batches,
\* always reaches the final report, and starts no further batch once the
\* pending set is empty.
C20_Terminates ==
    /\ [](Distributed =>
            /\ total_batches * batch_size >= Len(accounts)
            /\ (total_batches - 1) * batch_size < Len(accounts)
            /\ batch_num <= total_batches
            /\ pc \in {"login", "send"} => batch_num < total_batches
            /\ \A a \in Accounts : \A i \in 1..Len(login_batches[a]) :
                  login_batches[a][i] < total_batches)
    /\ [](Len(accounts) > 0 => <>(pc = "done" /\ report = Len(remaining_users)))
    /\ [][(pc # "start" /\ remaining_users = <<>>) =>
             (login_batches' = login_batches /\ (pc = "loop" => pc' = "report"))]_vars

C20_Witness ==
    /\ pc = "done"
    /\ batch_size = 1
    /\ total_batches = 3
    /\ batch_num = 3
    /\ \A a \in 1..3 : login_batches[a] = <<a - 1>>
    /\ report = 0
====
